---------------------------- MODULE Spec2Model ----------------------------
(***************************************************************************)
(* BankGPT ingestion pipeline: page-text cleaning (prepare_data.py), the   *)
(* batch file pipeline (prepare_data.py), the summarization pass           *)
(* (summarizer.py) and the embedding + upsert pass (store_in_vector_db.py).*)
(*                                                                         *)
(* A Python str is modelled as a sequence of one-character strings.  The   *)
(* box-drawing glyph U+2550 is written "U2550" (the module is ASCII).      *)
(***************************************************************************)
EXTENDS Integers, Sequences, FiniteSets, TLC

VARIABLES
    \* clean_text applied to one page text (prepare_data.py)
    text, once, twice, cpc,
    \* summarize_json_file (summarizer.py)
    file, data, entry_idx, invoked, failed_at, spc,
    \* upsert_to_pinecone (store_in_vector_db.py)
    chunks, index_exists, upsert_calls, exc, upc,
    \* PDFTextProcessor.process_all (prepare_data.py); fs maps each output
    \* path to the file there, with the document and the elements it was
    \* written from; extracted holds the elements of the current document
    dir_exists, listing, pdf_paths, path_idx, page_data, extracted, fs,
    error_path, ppc

cleanVars == <<text, once, twice, cpc>>
sumVars == <<file, data, entry_idx, invoked, failed_at, spc>>
upVars == <<chunks, index_exists, upsert_calls, exc, upc>>
pipeVars == <<dir_exists, listing, pdf_paths, path_idx, page_data, extracted,
              fs, error_path, ppc>>
vars == <<cleanVars, sumVars, upVars, pipeVars>>

-----------------------------------------------------------------------------
(* Bounds of the model.                                                    *)

\* a page text is the concatenation of at most MaxPieces pieces
MaxPieces == 4
\* records in the JSON file handed to summarize_json_file
MaxEntries == 3
\* chunks handed to upsert_to_pinecone
MaxChunks == 3
\* elements partition_pdf returns for one document
MaxElements == 2

-----------------------------------------------------------------------------
(* Python str helpers.                                                     *)

Max(S) == CHOOSE m \in S : \A n \in S : n <= m

\* the characters re's \s and str.strip() treat as whitespace
IsSpace(c) == c \in {" ", "\t", "\n"}

\* re's \d
IsDigit(c) == c \in {"0", "1", "2", "3", "4", "5", "6", "7", "8", "9"}

\* re's \w: letters, digits and the underscore (the letters the texts and
\* file names of this module use)
IsWord(c) ==
    \/ IsDigit(c)
    \/ c = "_"
    \/ c \in {"a", "b", "c", "d", "e", "f", "g", "n", "p", "t", "x",
              "A", "D", "E", "F", "G", "P"}

\* the class [U+2500 U+2550 U+255A U+2569 U+255D U+2554 U+2566 U+2557
\*            U+2560 U+2563 U+256C] of rule 3
IsBorder(c) ==
    c \in {"U2500", "U2550", "U255A", "U2569", "U255D", "U2554", "U2566",
           "U2557", "U2560", "U2563", "U256C"}

\* first index >= i whose character is not whitespace (Len(s)+1 if none)
SkipSpace(s, i) ==
    Max({j \in i..(Len(s) + 1) : \A k \in i..(j - 1) : IsSpace(s[k])})

\* first index >= i whose character is not a digit
SkipDigits(s, i) ==
    Max({j \in i..(Len(s) + 1) : \A k \in i..(j - 1) : IsDigit(s[k])})

\* first index >= i whose character is not a word character
SkipWord(s, i) ==
    Max({j \in i..(Len(s) + 1) : \A k \in i..(j - 1) : IsWord(s[k])})

\* str.strip(): leading and trailing whitespace removed
strip(s) ==
    LET first == SkipSpace(s, 1)
        last == IF first > Len(s) THEN 0
                ELSE Max({j \in 1..Len(s) : ~IsSpace(s[j])})
    IN SubSeq(s, first, last)

RECURSIVE Flatten(_)
Flatten(ss) == IF ss = <<>> THEN <<>> ELSE Head(ss) \o Flatten(Tail(ss))

\* s[from:] starts with the characters of lit
StartsWith(s, from, lit) ==
    /\ from + Len(lit) - 1 <= Len(s)
    /\ \A k \in 1..Len(lit) : s[from + k - 1] = lit[k]

\* `sub in s`
Contains(s, sub) ==
    \E i \in 1..(Len(s) - Len(sub) + 1) : StartsWith(s, i, sub)

-----------------------------------------------------------------------------
(* clean_text: the six substitutions of prepare_data.py lines 107-113.     *)

\* re.sub(r'-\n(\w+)', r'\1', text): scan left to right; at a hyphen
\* followed by a newline and a word character, drop both and copy the
\* greedy word run, then go on after it
RECURSIVE DehyphenateFrom(_, _)
DehyphenateFrom(s, i) ==
    IF i > Len(s) THEN <<>>
    ELSE IF /\ s[i] = "-"
            /\ i + 2 <= Len(s)
            /\ s[i + 1] = "\n"
            /\ IsWord(s[i + 2])
         THEN LET e == SkipWord(s, i + 2)
              IN SubSeq(s, i + 2, e - 1) \o DehyphenateFrom(s, e)
         ELSE <<s[i]>> \o DehyphenateFrom(s, i + 1)

\* a slip in the replacement: only the hyphen goes, the newline stays
RECURSIVE DehyphenateKeepNewlineFrom(_, _)
DehyphenateKeepNewlineFrom(s, i) ==
    IF i > Len(s) THEN <<>>
    ELSE IF /\ s[i] = "-"
            /\ i + 2 <= Len(s)
            /\ s[i + 1] = "\n"
            /\ IsWord(s[i + 2])
         THEN LET e == SkipWord(s, i + 2)
              IN SubSeq(s, i + 1, e - 1) \o DehyphenateKeepNewlineFrom(s, e)
         ELSE <<s[i]>> \o DehyphenateKeepNewlineFrom(s, i + 1)

DehyphenateKeepNewline(s) == DehyphenateKeepNewlineFrom(s, 1)

Dehyphenate(s) == DehyphenateFrom(s, 1)

\* re.sub(r'[ ]{2,}', ' ', text): a space that follows a space is dropped
RECURSIVE CollapseSpacesFrom(_, _)
CollapseSpacesFrom(s, i) ==
    IF i > Len(s) THEN <<>>
    ELSE IF s[i] = " " /\ i > 1 /\ s[i - 1] = " "
         THEN CollapseSpacesFrom(s, i + 1)
         ELSE <<s[i]>> \o CollapseSpacesFrom(s, i + 1)

CollapseSpaces(s) == CollapseSpacesFrom(s, 1)

\* re.sub(r'[...]+', '', text): every border glyph is removed
StripBorders(s) == SelectSeq(s, LAMBDA c : ~IsBorder(c))

\* ^ under re.MULTILINE: at the start of the text or right after a newline
AtLineStart(s, i) == i = 1 \/ s[i - 1] = "\n"

\* $ under re.MULTILINE: at the end of the text or right before a newline
AtLineEnd(s, i) == i = Len(s) + 1 \/ s[i] = "\n"

LabelPage == <<"P", "a", "g", "e">>
LabelPAGE == <<"P", "A", "G", "E">>

\* \s*(Page|PAGE)?\s*\d+\s*$ attempted at index p: the index right after
\* the match, or 0 when there is none.  \s matches newlines too.  The
\* digits are taken greedily (giving one back leaves a digit where \s* and
\* $ must match); the trailing \s* is greedy and gives back whitespace
\* until $ holds.
PageMatchEnd(s, p) ==
    LET a == SkipSpace(s, p)
        b == IF StartsWith(s, a, LabelPage) \/ StartsWith(s, a, LabelPAGE)
             THEN a + 4 ELSE a
        c == SkipSpace(s, b)
        d == SkipDigits(s, c)
        ends == {e \in d..SkipSpace(s, d) : AtLineEnd(s, e)}
    IN IF d = c \/ ends = {} THEN 0 ELSE Max(ends)

\* re.sub(r'^\s*(Page|PAGE)?\s*\d+\s*$', '', text, flags=re.MULTILINE):
\* leftmost non-overlapping matches are removed
RECURSIVE RemovePageNumbersFrom(_, _)
RemovePageNumbersFrom(s, i) ==
    IF i > Len(s) THEN <<>>
    ELSE IF AtLineStart(s, i) /\ PageMatchEnd(s, i) # 0
         THEN RemovePageNumbersFrom(s, PageMatchEnd(s, i))
         ELSE <<s[i]>> \o RemovePageNumbersFrom(s, i + 1)

RemovePageNumbers(s) == RemovePageNumbersFrom(s, 1)

\* re.sub(r'\n{2,}', '\n', text)
RECURSIVE CollapseNewlinesFrom(_, _)
CollapseNewlinesFrom(s, i) ==
    IF i > Len(s) THEN <<>>
    ELSE IF s[i] = "\n" /\ i > 1 /\ s[i - 1] = "\n"
         THEN CollapseNewlinesFrom(s, i + 1)
         ELSE <<s[i]>> \o CollapseNewlinesFrom(s, i + 1)

CollapseNewlines(s) == CollapseNewlinesFrom(s, 1)

\* re.sub(r'\s+', ' ', text): every whitespace run becomes one space
RECURSIVE CollapseWhitespaceFrom(_, _)
CollapseWhitespaceFrom(s, i) ==
    IF i > Len(s) THEN <<>>
    ELSE IF IsSpace(s[i])
         THEN IF i > 1 /\ IsSpace(s[i - 1])
              THEN CollapseWhitespaceFrom(s, i + 1)
              ELSE <<" ">> \o CollapseWhitespaceFrom(s, i + 1)
         ELSE <<s[i]>> \o CollapseWhitespaceFrom(s, i + 1)

CollapseWhitespace(s) == CollapseWhitespaceFrom(s, 1)

\* the text after rules 1-3 and after rules 1-4
AfterRule3(s) == StripBorders(CollapseSpaces(Dehyphenate(s)))
AfterRule4(s) == RemovePageNumbers(AfterRule3(s))

\* rules 3 and 4 in the wrong order: page-number lines are looked for
\* before the border glyphs are stripped
clean_text_borders_late(s) ==
    strip(CollapseWhitespace(CollapseNewlines(StripBorders(
        RemovePageNumbers(CollapseSpaces(Dehyphenate(s)))))))

clean_text(s) ==
    strip(CollapseWhitespace(CollapseNewlines(RemovePageNumbers(
        StripBorders(CollapseSpaces(Dehyphenate(s)))))))

-----------------------------------------------------------------------------
(* Page texts the cleaning is applied to.                                  *)

Pieces ==
    { <<"-">>, <<"\n">>, <<" ">>, <<"\t">>, <<"a">>, <<"1">>, <<"U2550">>,
      LabelPage, LabelPAGE }

Texts ==
    { Flatten(ps) : ps \in UNION { [1..n -> Pieces] : n \in 0..MaxPieces } }

-----------------------------------------------------------------------------
(* Each pass below is a batch job of its own (separate scripts, no shared  *)
(* process state): while one runs, the variables of the others are idle.   *)

CleanIdle == text = <<>> /\ once = <<>> /\ twice = <<>> /\ cpc = "idle"

SumIdle ==
    /\ file = <<>> /\ data = <<>> /\ entry_idx = 0 /\ invoked = {}
    /\ failed_at = 0 /\ spc = "idle"

UpIdle ==
    /\ chunks = <<>> /\ index_exists = FALSE /\ upsert_calls = <<>>
    /\ exc = "none" /\ upc = "idle"

PipeIdle ==
    /\ dir_exists = FALSE /\ listing = {} /\ pdf_paths = <<>> /\ path_idx = 0
    /\ page_data = <<>> /\ extracted = <<>> /\ fs = <<>> /\ error_path = <<>>
    /\ ppc = "idle"

-----------------------------------------------------------------------------
(* SpecClean: clean_text applied to a page text, and again to its result.  *)

InitClean ==
    /\ text \in Texts
    /\ once = <<>> /\ twice = <<>> /\ cpc = "raw"
    /\ SumIdle /\ UpIdle /\ PipeIdle

\* item['clean_content'] = clean_text(item['content'])
CleanOnce ==
    /\ cpc = "raw"
    /\ once' = clean_text(text)
    /\ cpc' = "cleaned"
    /\ UNCHANGED <<text, twice, sumVars, upVars, pipeVars>>

\* the cleaned text is cleaned a second time
CleanTwice ==
    /\ cpc = "cleaned"
    /\ twice' = clean_text(once)
    /\ cpc' = "recleaned"
    /\ UNCHANGED <<text, once, sumVars, upVars, pipeVars>>

NextClean == CleanOnce \/ CleanTwice

SpecClean == InitClean /\ [][NextClean]_vars

-----------------------------------------------------------------------------
(* Properties of clean_text (SpecClean).                                   *)

\* C1: cleaning is idempotent: cleaning the cleaned text changes nothing.
C1_Idempotent == cpc = "recleaned" => twice = once

\* a text that the first cleaning changed to something non-empty, cleaned
\* a second time
C1_Witness ==
    /\ cpc = "recleaned"
    /\ once # text
    /\ once # <<>>
    /\ \E k \in 1..Len(text) : IsBorder(text[k]) \/ text[k] = "\n"

\* text.split("\n")
RECURSIVE SplitLines(_)
SplitLines(s) ==
    IF \E i \in 1..Len(s) : s[i] = "\n"
    THEN LET i == CHOOSE j \in 1..Len(s) :
                    s[j] = "\n" /\ \A k \in 1..(j - 1) : s[k] # "\n"
         IN <<SubSeq(s, 1, i - 1)>> \o SplitLines(SubSeq(s, i + 1, Len(s)))
    ELSE <<s>>

\* a line that by itself is an optional Page/PAGE label and a number
IsPageNumberLine(l) ==
    LET t == strip(l)
        u == IF StartsWith(t, 1, LabelPage) \/ StartsWith(t, 1, LabelPAGE)
             THEN strip(SubSeq(t, 5, Len(t))) ELSE t
    IN u # <<>> /\ \A k \in 1..Len(u) : IsDigit(u[k])

\* the lines of s with every page-number line emptied, joined again
RECURSIVE BlankPageNumberLines(_)
BlankPageNumberLines(ls) ==
    IF Len(ls) = 1
    THEN IF IsPageNumberLine(ls[1]) THEN <<>> ELSE ls[1]
    ELSE (IF IsPageNumberLine(ls[1]) THEN <<>> ELSE ls[1])
         \o <<"\n">> \o BlankPageNumberLines(Tail(ls))

PerLineRemoval(s) == BlankPageNumberLines(SplitLines(s))

\* C2: page-number removal is per line: the cleaned text is what results
\* when exactly the lines that by themselves are page-number lines are
\* removed, and the text of every other line is kept by rule 4.
C2_PerLineRemoval ==
    cpc # "raw" =>
        once = strip(CollapseWhitespace(CollapseNewlines(
                   PerLineRemoval(AfterRule3(text)))))

\* the word characters that end right before index i
LeftRun(s, i) ==
    LET from == CHOOSE j \in 1..i :
                    /\ \A k \in j..(i - 1) : IsWord(s[k])
                    /\ \A h \in 1..(j - 1) :
                           \E k \in h..(i - 1) : ~IsWord(s[k])
    IN SubSeq(s, from, i - 1)

\* the rejoined words of s: for each hyphen-newline-word occurrence, the
\* word characters before the hyphen followed by the word after the newline
HyphenJoins(s) ==
    { LeftRun(s, i) \o SubSeq(s, i + 2, SkipWord(s, i + 2) - 1) :
        i \in { j \in 1..(Len(s) - 2) :
                  s[j] = "-" /\ s[j + 1] = "\n" /\ IsWord(s[j + 2]) } }

NoNewline(s) == \A k \in 1..Len(s) : s[k] # "\n"

\* C3 as stated: the cleaned text contains every rejoined word and no
\* newline.
C3_RejoinedWordKept ==
    cpc # "raw" =>
        /\ NoNewline(once)
        /\ \A w \in HyphenJoins(text) : Contains(once, w)

\* the characters a page-number line is made of
IsPageNumberChar(c) == IsDigit(c) \/ c \in {"P", "a", "g", "e", "A", "G", "E"}

\* C3 (amended): the cleaned text never contains a newline; every rejoined
\* word is in the text once rules 1-3 have run, and it is in the cleaned
\* text unless rule 4 removed it as part of a page-number line, which
\* needs the word to be made of digits and Page/PAGE letters only.
C3_RejoinedUnlessPageNumber ==
    cpc # "raw" =>
        /\ NoNewline(once)
        /\ \A w \in HyphenJoins(text) :
              /\ Contains(AfterRule3(text), w)
              /\ \/ Contains(once, w)
                 \/ /\ ~Contains(AfterRule4(text), w)
                    /\ \A k \in 1..Len(w) : IsPageNumberChar(w[k])

\* a word split over a line break that the cleaning rejoined
C3_Witness ==
    /\ cpc = "cleaned"
    /\ \E w \in HyphenJoins(text) :
          Len(w) >= 2 /\ ~Contains(text, w) /\ Contains(once, w)

-----------------------------------------------------------------------------
(* SpecSummarize: summarize_json_file (summarizer.py lines 44-65).         *)
(* A JSON object is a function from its keys; a missing key is a key that  *)
(* is not in its domain.                                                   *)

\* dict.get(key, default)
Get(d, key, default) == IF key \in DOMAIN d THEN d[key] ELSE default

\* d[key] = value
Put(d, key, value) ==
    [k \in DOMAIN d \cup {key} |-> IF k = key THEN value ELSE d[k]]

Sentinel == "No substantive content available to summarize."

\* what response.summary may hold: any string the service returns
Summaries == {Sentinel, "Revenue was Rs 500 crore.", ""}

\* the records a JSON file may hold before the pass
EntryKinds ==
    { [page_num |-> 1],
      [page_num |-> 1, clean_content |-> <<>>],
      [page_num |-> 1, clean_content |-> <<" ", "\n">>],
      [page_num |-> 1, clean_content |-> <<"\t">>, summarized |-> "stale"],
      [page_num |-> 1, clean_content |-> <<"a">>],
      [page_num |-> 1, clean_content |-> <<" ", "a">>] }

InitSummarize ==
    /\ file \in UNION { [1..n -> EntryKinds] : n \in 0..MaxEntries }
    /\ data = <<>> /\ entry_idx = 0 /\ invoked = {} /\ failed_at = 0
    /\ spc = "start"
    /\ CleanIdle /\ UpIdle /\ PipeIdle

\* with open(file_path, 'r+') as file: data = json.load(file)
LoadFile ==
    /\ spc = "start"
    /\ data' = file
    /\ entry_idx' = 1
    /\ spc' = "loop"
    /\ UNCHANGED <<file, invoked, failed_at, cleanVars, upVars, pipeVars>>

\* input_text = entry.get("clean_content", "")
input_text(entry) == Get(entry, "clean_content", <<>>)

\* the test compares the text as it is, without strip()
NeedsSummaryUnstripped(entry) == input_text(entry) # <<>>

\* if input_text.strip():
NeedsSummary(entry) == strip(input_text(entry)) # <<>>

\* response = chain.invoke(...); entry["summarized"] = response.summary
SummarizeInvoke ==
    /\ spc = "loop"
    /\ entry_idx <= Len(data)
    /\ NeedsSummary(data[entry_idx])
    /\ \E summary \in Summaries :
          data' = [data EXCEPT
                       ![entry_idx] = Put(@, "summarized", summary)]
    /\ invoked' = invoked \cup {entry_idx}
    /\ entry_idx' = entry_idx + 1
    /\ UNCHANGED <<file, failed_at, spc, cleanVars, upVars, pipeVars>>

\* chain.invoke raises: nothing in summarize_json_file catches it, the with
\* block closes the file as it was and the exception leaves the function
SummarizeInvokeRaises ==
    /\ spc = "loop"
    /\ entry_idx <= Len(data)
    /\ NeedsSummary(data[entry_idx])
    /\ invoked' = invoked \cup {entry_idx}
    /\ failed_at' = entry_idx
    /\ spc' = "raised"
    /\ UNCHANGED <<file, data, entry_idx, cleanVars, upVars, pipeVars>>

\* else: entry["summarized"] = "No substantive content available ..."
SummarizeSentinel ==
    /\ spc = "loop"
    /\ entry_idx <= Len(data)
    /\ ~NeedsSummary(data[entry_idx])
    /\ data' = [data EXCEPT ![entry_idx] = Put(@, "summarized", Sentinel)]
    /\ entry_idx' = entry_idx + 1
    /\ UNCHANGED <<file, invoked, failed_at, spc, cleanVars, upVars,
                   pipeVars>>

\* file.seek(0); json.dump(data, file, ...); file.truncate()
WriteBack ==
    /\ spc = "loop"
    /\ entry_idx > Len(data)
    /\ file' = data
    /\ spc' = "done"
    /\ UNCHANGED <<data, entry_idx, invoked, failed_at, cleanVars, upVars,
                   pipeVars>>

NextSummarize ==
    \/ LoadFile
    \/ SummarizeInvoke
    \/ SummarizeInvokeRaises
    \/ SummarizeSentinel
    \/ WriteBack

SpecSummarize == InitSummarize /\ [][NextSummarize]_vars

\* clean_content is absent, empty or whitespace only
IsBlankEntry(entry) ==
    \/ "clean_content" \notin DOMAIN entry
    \/ \A k \in 1..Len(entry.clean_content) : IsSpace(entry.clean_content[k])

\* C4: after a completed pass every record whose clean_content is absent,
\* empty or whitespace only holds the sentinel as its summary, and the
\* language model was not invoked for it.
C4_BlankGetsSentinel ==
    spc = "done" =>
        \A i \in 1..Len(file) :
            IsBlankEntry(file[i]) =>
                /\ "summarized" \in DOMAIN file[i]
                /\ file[i].summarized = Sentinel
                /\ i \notin invoked

\* a completed pass over a file with a whitespace-only record, a record
\* without clean_content and a record that was sent to the language model
C4_Witness ==
    /\ spc = "done"
    /\ invoked # {}
    /\ \E i \in 1..Len(file) : "clean_content" \notin DOMAIN file[i]
    /\ \E i \in 1..Len(file) :
          /\ "clean_content" \in DOMAIN file[i]
          /\ file[i].clean_content # <<>>
          /\ IsBlankEntry(file[i])

\* C5: a failing language-model call is handled locally: the pass goes on
\* to the end, the failing record is left unset or with the sentinel, and
\* the records, with the summaries made so far, are written back.
C5_FailureHandledLocally ==
    (failed_at # 0 /\ spc \in {"done", "raised"}) =>
        /\ spc = "done"
        /\ entry_idx = Len(data) + 1
        /\ file = data
        /\ \A i \in 1..Len(file) :
              IF i = failed_at
              THEN Get(file[i], "summarized", Sentinel) = Sentinel
              ELSE "summarized" \in DOMAIN file[i]

-----------------------------------------------------------------------------
(* SpecUpsert: upsert_to_pinecone (store_in_vector_db.py lines 40-100).    *)

\* batch_size = 100
batch_size == 100

\* the names bound in the module's namespace when upsert_to_pinecone runs:
\* the imports of lines 1-8 and the module-level assignments and defs of
\* lines 10-40.  No line imports or defines tqdm.
ModuleGlobals ==
    { "Pinecone", "pinecone", "SentenceTransformer", "uuid", "logging",
      "List", "Dict", "os", "json", "dataset_path", "datasets",
      "all_chunks", "fpath", "f", "pc", "create_index_if_not_exists",
      "upsert_to_pinecone" }

\* the records the JSON files may hold: complete ones, and ones that lack
\* summarized (never summarized) or page_num
ChunkKinds ==
    { [company |-> "HDFC", year |-> 2024, page_num |-> 1,
       summarized |-> "s1", clean_content |-> "c1"],
      [company |-> "sbi", year |-> 2024, page_num |-> 2,
       summarized |-> "s2", clean_content |-> "c2"],
      [company |-> "HDFC", year |-> 2024, page_num |-> 3,
       clean_content |-> "c3"],
      [company |-> "sbi", year |-> 2024, summarized |-> "s4"] }

InitUpsert ==
    /\ chunks \in UNION { [1..n -> ChunkKinds] : n \in 0..MaxChunks }
    /\ index_exists \in BOOLEAN
    /\ upsert_calls = <<>>
    /\ exc = "none"
    /\ upc = "start"
    /\ CleanIdle /\ SumIdle /\ PipeIdle

\* lines 61-70: pc.list_indexes(), create_index_if_not_exists (creates the
\* index when it is not listed), pc.Index, SentenceTransformer(...);
\* vectors = []
UpsertSetup ==
    /\ upc = "start"
    /\ index_exists' = TRUE
    /\ upc' = "loop"
    /\ UNCHANGED <<chunks, upsert_calls, exc, cleanVars, sumVars, pipeVars>>

\* one of the calls of lines 61-70 raises, before or after the index was
\* created; the outer try catches it
UpsertSetupRaises ==
    /\ upc = "start"
    /\ \E created \in BOOLEAN : index_exists' = (index_exists \/ created)
    /\ exc' = "external"
    /\ upc' = "except"
    /\ UNCHANGED <<chunks, upsert_calls, cleanVars, sumVars, pipeVars>>

\* line 73, for chunk in tqdm(chunks): the name tqdm is looked up in the
\* module's namespace and is not there, so NameError is raised before the
\* first chunk is read; the inner try (line 74) is not entered yet, the
\* outer try catches it
IterateChunks ==
    /\ upc = "loop"
    /\ "tqdm" \notin ModuleGlobals
    /\ exc' = "NameError"
    /\ upc' = "except"
    /\ UNCHANGED <<chunks, index_exists, upsert_calls, cleanVars, sumVars,
                   pipeVars>>

\* except Exception as e: print(...); raise e
Reraise ==
    /\ upc = "except"
    /\ upc' = "raised"
    /\ UNCHANGED <<chunks, index_exists, upsert_calls, exc, cleanVars,
                   sumVars, pipeVars>>

NextUpsert == UpsertSetup \/ UpsertSetupRaises \/ IterateChunks \/ Reraise

SpecUpsert == InitUpsert /\ [][NextUpsert]_vars

\* ceil(n / d)
CeilDiv(n, d) == (n + d - 1) \div d

\* the call has ended (returned or raised) and the index and the embedding
\* model were available
UpsertEnded == upc \in {"done", "raised"} /\ exc # "external"

\* the company, year and page number of a record
RecordKey(chunk) ==
    [company |-> chunk.company, year |-> chunk.year, page |-> chunk.page_num]

\* a record with the fields the vector is built from
IsCompleteChunk(chunk) ==
    {"summarized", "company", "year", "page_num"} \subseteq DOMAIN chunk

\* the metadata of the vectors of all upsert calls, in order
UpsertedKeys ==
    Flatten([c \in 1..Len(upsert_calls) |->
               [v \in 1..Len(upsert_calls[c]) |->
                  [company |-> upsert_calls[c][v].company,
                   year |-> upsert_calls[c][v].year,
                   page |-> upsert_calls[c][v].page]]])

\* C6: N records give ceil(N/100) upsert calls of at most 100 vectors, all
\* but the last of exactly 100, and every vector carries the company, year
\* and page number of its record.
C6_BatchesOfHundred ==
    UpsertEnded =>
        /\ Len(upsert_calls) = CeilDiv(Len(chunks), batch_size)
        /\ \A c \in 1..Len(upsert_calls) :
              /\ Len(upsert_calls[c]) <= batch_size
              /\ c < Len(upsert_calls) => Len(upsert_calls[c]) = batch_size
        /\ UpsertedKeys = [i \in 1..Len(chunks) |-> RecordKey(chunks[i])]

\* C7: a record that cannot be embedded (one that lacks summarized,
\* company, year or page_num) is left out alone: the other records are
\* embedded and upserted.  (No upsert call fails in this model, so the
\* second half of the claim, a failing batch, has no case here.)
C7_RecordFailureIsolated ==
    (UpsertEnded /\ \E i \in 1..Len(chunks) : ~IsCompleteChunk(chunks[i])) =>
        UpsertedKeys =
            LET kept == SelectSeq(chunks, IsCompleteChunk)
            IN [i \in 1..Len(kept) |-> RecordKey(kept[i])]

-----------------------------------------------------------------------------
(* SpecPipeline: PDFTextProcessor.process_all (prepare_data.py).           *)
(* An optional value is <<>> (None) or <<v>>.  A dict is the sequence of   *)
(* its items in insertion order.                                           *)

None == <<>>
Some(v) == <<v>>

\* year=2024 (line 173; the default of __init__, line 22)
year == 2024

\* dataset_dir ("dataset/pdfs") and output_dir ("dataset/json"), shortened
dataset_dir == <<"d">>
output_dir == <<"o">>

\* what os.listdir(dataset_dir) may hold
DirEntries ==
    { <<"a", ".", "p", "d", "f">>,
      <<"a", ".", "b", ".", "p", "d", "f">>,
      <<"b", ".", "P", "D", "F">>,
      <<"n", ".", "t", "x", "t">> }

\* the code point of a character, for the characters file names use
Ord(c) ==
    CASE c = "." -> 46 [] c = "/" -> 47
      [] c = "D" -> 68 [] c = "F" -> 70 [] c = "P" -> 80
      [] c = "_" -> 95
      [] c = "a" -> 97 [] c = "b" -> 98 [] c = "d" -> 100
      [] c = "f" -> 102 [] c = "n" -> 110 [] c = "p" -> 112
      [] c = "t" -> 116 [] c = "x" -> 120

\* str.lower()
lower(s) ==
    [i \in 1..Len(s) |->
        CASE s[i] = "D" -> "d" [] s[i] = "F" -> "f" [] s[i] = "P" -> "p"
          [] OTHER -> s[i]]

\* str.endswith(lit)
EndsWith(s, lit) ==
    Len(s) >= Len(lit) /\ SubSeq(s, Len(s) - Len(lit) + 1, Len(s)) = lit

\* os.path.join(dir, name)
join(dir, name) == dir \o <<"/">> \o name

\* os.path.basename(path): what follows the last "/"
basename(path) ==
    LET cut == Max({0} \cup {i \in 1..Len(path) : path[i] = "/"})
    IN SubSeq(path, cut + 1, Len(path))

\* name.split('.')[0]: the name up to its first dot
SplitFirstDot(name) ==
    LET dots == {i \in 1..Len(name) : name[i] = "."}
    IN IF dots = {} THEN name
       ELSE SubSeq(name, 1, (CHOOSE i \in dots : \A j \in dots : i <= j) - 1)

\* a < b for str: the first differing character decides, a proper prefix
\* is smaller
StrLess(a, b) ==
    \E i \in 1..(Len(b)) :
        /\ \A k \in 1..(i - 1) : k <= Len(a) /\ a[k] = b[k]
        /\ i - 1 <= Len(a)
        /\ \/ i = Len(a) + 1
           \/ i <= Len(a) /\ Ord(a[i]) < Ord(b[i])

\* sorted(S) for a set of str
RECURSIVE sorted(_)
sorted(S) ==
    IF S = {} THEN <<>>
    ELSE LET least == CHOOSE a \in S : \A b \in S \ {a} : StrLess(a, b)
         IN <<least>> \o sorted(S \ {least})

\* str(n) for n >= 0
RECURSIVE IntToStr(_)
IntToStr(n) ==
    LET digit(d) == <<"0", "1", "2", "3", "4", "5", "6", "7", "8", "9">>[d + 1]
    IN IF n < 10 THEN <<digit(n)>>
       ELSE IntToStr(n \div 10) \o <<digit(n % 10)>>

\* "\n".join(lines)
RECURSIVE JoinLines(_)
JoinLines(lines) ==
    IF lines = <<>> THEN <<>>
    ELSE IF Len(lines) = 1 THEN lines[1]
    ELSE lines[1] \o <<"\n">> \o JoinLines(Tail(lines))

\* the elements partition_pdf may return: a page number (or None) and a
\* text (or None)
ElementKinds ==
    { [page_number |-> None, text |-> Some(<<"a">>)],
      [page_number |-> Some(0), text |-> Some(<<"\n">>)],
      [page_number |-> Some(2), text |-> Some(<<" ", "b">>)],
      [page_number |-> Some(1), text |-> Some(<<"1", "-", "\n", "a", " ">>)],
      [page_number |-> Some(1), text |-> None] }

ElementLists == UNION { [1..n -> ElementKinds] : n \in 1..MaxElements }

\* page_num = el.metadata.page_number or 0
page_num_of(el) ==
    IF el.page_number = None \/ el.page_number = Some(0) THEN 0
    ELSE el.page_number[1]

\* one turn of the loop of lines 70-78 on the dict pagewise_text
AddElement(pagewise_text, el) ==
    LET page_num == page_num_of(el)
        known == \E i \in 1..Len(pagewise_text) :
                     pagewise_text[i].page = page_num
        d == IF known THEN pagewise_text
             ELSE Append(pagewise_text, [page |-> page_num, lines |-> <<>>])
        kept == /\ el.text # None
                /\ el.text[1] # <<>>
                /\ strip(el.text[1]) # <<>>
    IN IF kept
       THEN [i \in 1..Len(d) |->
               IF d[i].page = page_num
               THEN [d[i] EXCEPT !.lines = Append(@, strip(el.text[1]))]
               ELSE d[i]]
       ELSE d

RECURSIVE GroupByPage(_, _)
GroupByPage(pagewise_text, elements) ==
    IF elements = <<>> THEN pagewise_text
    ELSE GroupByPage(AddElement(pagewise_text, Head(elements)),
                     Tail(elements))

\* the sort left out: the items stay in the order the pages were met
unsorted_items(items) == items

\* sorted(pagewise_text.items()): the keys are distinct, so the items are
\* ordered by page
RECURSIVE sorted_items(_)
sorted_items(items) ==
    IF items = <<>> THEN <<>>
    ELSE LET m == CHOOSE i \in 1..Len(items) :
                      \A j \in 1..Len(items) : items[i].page <= items[j].page
         IN <<items[m]>>
            \o sorted_items([k \in 1..(Len(items) - 1) |->
                               IF k < m THEN items[k] ELSE items[k + 1]])

\* lines 69-83: the dict page -> text built from the elements
extract_pdf_text_by_page(elements) ==
    LET items == sorted_items(GroupByPage(<<>>, elements))
    IN [i \in 1..Len(items) |->
          [page |-> items[i].page, text |-> JoinLines(items[i].lines)]]

\* lines 115-124: every item here has a str content
clean_pdf_json_content(items) ==
    [i \in 1..Len(items) |->
        Put(items[i], "clean_content", clean_text(items[i].content))]

\* lines 134-144 of create_json
final_text(company, page_items) ==
    clean_pdf_json_content(
        [i \in 1..Len(page_items) |->
            [page_num |-> page_items[i].page,
             content |-> page_items[i].text,
             year |-> year,
             company |-> company]])

\* lines 146-149 of create_json
output_path(pdf_path) ==
    join(output_dir,
         SplitFirstDot(basename(pdf_path)) \o <<"_">> \o IntToStr(year)
         \o <<".", "j", "s", "o", "n">>)

\* company_name = os.path.basename(path).split(".")[0]
company_name(path) == SplitFirstDot(basename(path))

\* a partly written file: open(output_path, "w") created or emptied it and
\* json.dump stopped before the array was complete
PartialFile(pdf_path, elements) ==
    [complete |-> FALSE, records |-> <<>>, src |-> pdf_path,
     elements |-> elements]

InitPipeline ==
    /\ dir_exists \in BOOLEAN
    /\ listing \in SUBSET DirEntries
    /\ ~dir_exists => listing = {}
    /\ pdf_paths = <<>> /\ path_idx = 0 /\ page_data = <<>>
    /\ extracted = <<>> /\ fs = <<>> /\ error_path = <<>>
    /\ ppc = "start"
    /\ CleanIdle /\ SumIdle /\ UpIdle

\* get_pdf_paths, lines 38-39: the directory does not exist
GetPdfPathsRaises ==
    /\ ppc = "start"
    /\ ~dir_exists
    /\ error_path' = dataset_dir
    /\ ppc' = "raised"
    /\ UNCHANGED <<dir_exists, listing, pdf_paths, path_idx, page_data,
                   extracted, fs, cleanVars, sumVars, upVars>>

\* get_pdf_paths, lines 41-50: the sorted paths of the entries whose
\* lower-cased name ends with ".pdf"
GetPdfPaths ==
    /\ ppc = "start"
    /\ dir_exists
    /\ pdf_paths' =
          sorted({ join(dataset_dir, f) :
                     f \in { g \in listing :
                               EndsWith(lower(g), <<".", "p", "d", "f">>) } })
    /\ path_idx' = 1
    /\ ppc' = "extract"
    /\ UNCHANGED <<dir_exists, listing, page_data, extracted, fs, error_path,
                   cleanVars, sumVars, upVars>>

\* data = self.extract_pdf_text_by_page(path), with the elements
\* partition_pdf returns for this document
Extract ==
    /\ ppc = "extract"
    /\ path_idx <= Len(pdf_paths)
    /\ \E elements \in ElementLists :
          /\ page_data' = extract_pdf_text_by_page(elements)
          /\ extracted' = elements
    /\ ppc' = "write"
    /\ UNCHANGED <<dir_exists, listing, pdf_paths, path_idx, fs, error_path,
                   cleanVars, sumVars, upVars>>

\* extract_pdf_text_by_page raises: the file is gone (line 57),
\* partition_pdf raises or returns no elements (lines 67, 86); process_all
\* catches nothing
ExtractRaises ==
    /\ ppc = "extract"
    /\ path_idx <= Len(pdf_paths)
    /\ error_path' = pdf_paths[path_idx]
    /\ ppc' = "raised"
    /\ UNCHANGED <<dir_exists, listing, pdf_paths, path_idx, page_data,
                   extracted, fs, cleanVars, sumVars, upVars>>

\* self.create_json(path, company_name, data): the records are built,
\* cleaned and written to output_path
CreateJson ==
    /\ ppc = "write"
    /\ LET path == pdf_paths[path_idx]
       IN fs' = Put(fs, output_path(path),
                    [complete |-> TRUE,
                     records |-> final_text(company_name(path), page_data),
                     src |-> path,
                     elements |-> extracted])
    /\ path_idx' = path_idx + 1
    /\ page_data' = <<>>
    /\ extracted' = <<>>
    /\ ppc' = "extract"
    /\ UNCHANGED <<dir_exists, listing, pdf_paths, error_path, cleanVars,
                   sumVars, upVars>>

\* create_json: open(output_path, "w") raises; line 158 re-raises
CreateJsonOpenRaises ==
    /\ ppc = "write"
    /\ error_path' = pdf_paths[path_idx]
    /\ ppc' = "raised"
    /\ UNCHANGED <<dir_exists, listing, pdf_paths, path_idx, page_data,
                   extracted, fs, cleanVars, sumVars, upVars>>

\* create_json: the file was opened for writing and json.dump raises while
\* writing; line 158 re-raises
CreateJsonDumpRaises ==
    /\ ppc = "write"
    /\ LET path == pdf_paths[path_idx]
       IN fs' = Put(fs, output_path(path), PartialFile(path, extracted))
    /\ error_path' = pdf_paths[path_idx]
    /\ ppc' = "raised"
    /\ UNCHANGED <<dir_exists, listing, pdf_paths, path_idx, page_data,
                   extracted, cleanVars, sumVars, upVars>>

\* the for loop of process_all is exhausted
ProcessAllReturns ==
    /\ ppc = "extract"
    /\ path_idx > Len(pdf_paths)
    /\ ppc' = "done"
    /\ UNCHANGED <<dir_exists, listing, pdf_paths, path_idx, page_data,
                   extracted, fs, error_path, cleanVars, sumVars, upVars>>

NextPipeline ==
    \/ GetPdfPathsRaises
    \/ GetPdfPaths
    \/ Extract
    \/ ExtractRaises
    \/ CreateJson
    \/ CreateJsonOpenRaises
    \/ CreateJsonDumpRaises
    \/ ProcessAllReturns

SpecPipeline == InitPipeline /\ [][NextPipeline]_vars

-----------------------------------------------------------------------------
(* Properties of the batch file pipeline (SpecPipeline).                   *)

\* a file name minus its extension: the name up to its last dot
FileStem(name) ==
    LET dots == {i \in 1..Len(name) : name[i] = "."}
    IN IF dots = {} THEN name ELSE SubSeq(name, 1, Max(dots) - 1)

\* <stem>_<year>.json under the output directory
StemOutput(pdf_path) ==
    join(output_dir,
         FileStem(basename(pdf_path)) \o <<"_">> \o IntToStr(year)
         \o <<".", "j", "s", "o", "n">>)

\* C8: after process_all completed over k documents there are k output
\* files, one per document, named <stem>_<year>.json, each holding the
\* records of its own document with company equal to the file name minus
\* its extension.
C8_OneFilePerDocument ==
    ppc = "done" =>
        /\ Cardinality(DOMAIN fs) = Len(pdf_paths)
        /\ \A i \in 1..Len(pdf_paths) :
              LET out == StemOutput(pdf_paths[i])
              IN /\ out \in DOMAIN fs
                 /\ fs[out].complete
                 /\ fs[out].src = pdf_paths[i]
                 /\ \A r \in 1..Len(fs[out].records) :
                       fs[out].records[r].company
                           = FileStem(basename(pdf_paths[i]))

\* the page an element counts for: 0 when its page number is unknown
PageOrZero(el) == IF el.page_number = None THEN 0 ELSE el.page_number[1]

\* the stripped non-empty text fragments of the elements of one page, in
\* encounter order, joined by newlines
RECURSIVE ExpectedContent(_, _)
ExpectedContent(elements, page) ==
    IF elements = <<>> THEN <<>>
    ELSE LET el == Head(elements)
             rest == ExpectedContent(Tail(elements), page)
             own == /\ PageOrZero(el) = page
                    /\ el.text # None
                    /\ \E k \in 1..Len(el.text[1]) : ~IsSpace(el.text[1][k])
         IN IF ~own THEN rest
            ELSE IF rest = <<>> /\ ~\E k \in 1..Len(Tail(elements)) :
                        /\ PageOrZero(Tail(elements)[k]) = page
                        /\ Tail(elements)[k].text # None
                        /\ \E c \in 1..Len(Tail(elements)[k].text[1]) :
                              ~IsSpace(Tail(elements)[k].text[1][c])
                 THEN strip(el.text[1])
                 ELSE strip(el.text[1]) \o <<"\n">> \o rest

C10_FailureLeavesEarlierOutputs ==
    /\ \A i, j \in 1..Len(pdf_paths) :
          i < j => StrLess(pdf_paths[i], pdf_paths[j])
    /\ (ppc = "raised" /\ dir_exists) =>
          \E k \in 1..Len(pdf_paths) :
              /\ k = path_idx
              /\ error_path = pdf_paths[k]
              /\ \A j \in 1..(k - 1) :
                    /\ output_path(pdf_paths[j]) \in DOMAIN fs
                    /\ fs[output_path(pdf_paths[j])].complete
                    /\ fs[output_path(pdf_paths[j])].src = pdf_paths[j]
              /\ \A out \in DOMAIN fs :
                    \A j \in k..Len(pdf_paths) : fs[out].src # pdf_paths[j]
    /\ (ppc = "raised" /\ ~dir_exists) =>
          fs = <<>> /\ pdf_paths = <<>> /\ error_path = dataset_dir
    /\ (ppc = "done" /\ pdf_paths = <<>>) => fs = <<>>

=============================================================================
